---- MODULE Spec2Model ----
(***************************************************************************)
(* ExpenseTracker (src/ExpenseTracker/main.py): one table of expenses      *)
(* behind a web surface and a JSON API.  The state is the table, the       *)
(* system clock, the open storage sessions and the requests in flight,     *)
(* each at a position of its handler.  A handler is cut at its SQL         *)
(* statements: the statements of two requests can interleave, the code     *)
(* between two statements of one request cannot be observed by another.    *)
(***************************************************************************)
EXTENDS Integers, Sequences, FiniteSets

VARIABLES
  table,     \* the expenses table: id -> row
  today,     \* the date the system clock shows
  ticks,     \* how many midnights have passed
  sessions,  \* the storage sessions that are open
  req,       \* the requests in flight, one per client
  balance,   \* history: amounts created, less amounts deleted, plus changes
  deleted    \* history: ids whose record was deleted and that no record took since

vars == <<table, today, ticks, sessions, req, balance, deleted>>

(* ------------------------------ bounds -------------------------------- *)

\* Largest id the table may hold (creates are not accepted beyond it).
MaxId == 2

\* The same for the overlapping clients.
ConcMaxId == 1

\* How many times midnight may pass.
MaxTicks == 1

(* ------------------------- characters and text ------------------------ *)

DigitChars == {"0", "1", "2", "3", "4", "5", "6", "7", "8", "9"}

DigitVal(c) ==
  CASE c = "0" -> 0 [] c = "1" -> 1 [] c = "2" -> 2 [] c = "3" -> 3
    [] c = "4" -> 4 [] c = "5" -> 5 [] c = "6" -> 6 [] c = "7" -> 7
    [] c = "8" -> 8 [] c = "9" -> 9

DigitChar(n) ==
  CASE n = 0 -> "0" [] n = 1 -> "1" [] n = 2 -> "2" [] n = 3 -> "3"
    [] n = 4 -> "4" [] n = 5 -> "5" [] n = 6 -> "6" [] n = 7 -> "7"
    [] n = 8 -> "8" [] n = 9 -> "9"

AllDigits(s) == \A i \in 1..Len(s) : s[i] \in DigitChars

\* The number the first n digits of s write.
RECURSIVE Prefix(_, _)
Prefix(s, n) == IF n = 0 THEN 0 ELSE 10 * Prefix(s, n - 1) + DigitVal(s[n])

DecimalValue(s) == Prefix(s, Len(s))

RECURSIVE Power10(_)
Power10(k) == IF k = 0 THEN 1 ELSE 10 * Power10(k - 1)

\* n written with exactly w digits.
Digits(n, w) == [k \in 1..w |-> DigitChar((n \div Power10(w - k)) % 10)]

(* ------------------------------ calendar ------------------------------ *)

IsLeap(y) == (y % 4 = 0 /\ y % 100 # 0) \/ y % 400 = 0

DaysInMonth(y, m) ==
  IF m = 2 THEN (IF IsLeap(y) THEN 29 ELSE 28)
  ELSE IF m \in {4, 6, 9, 11} THEN 30 ELSE 31

NextDay(d) ==
  IF d.d < DaysInMonth(d.y, d.m) THEN [d EXCEPT !.d = d.d + 1]
  ELSE IF d.m < 12 THEN [y |-> d.y, m |-> d.m + 1, d |-> 1]
  ELSE [y |-> d.y + 1, m |-> 1, d |-> 1]

\* date.isoformat(): the text a date is stored and sent as.
IsoFormat(d) ==
  Digits(d.y, 4) \o <<"-">> \o Digits(d.m, 2) \o <<"-">> \o Digits(d.d, 2)

(* ------------------- validation of the request fields ----------------- *)

\* A field of a form or JSON body: <<>> when the field is missing, <<v>>
\* when it is present with value v.  description is text; amount and date
\* arrive as text, a sequence of characters.

\* amount: float -- the decimal fragment: an optional sign, then digits.
AmountOk(s) ==
  /\ s # <<>>
  /\ LET t == IF s[1] \in {"-", "+"} THEN Tail(s) ELSE s
     IN  t # <<>> /\ AllDigits(t)

ParseAmount(s) ==
  IF s[1] = "-" THEN 0 - DecimalValue(Tail(s))
  ELSE IF s[1] = "+" THEN DecimalValue(Tail(s))
  ELSE DecimalValue(s)

\* Variant of DateOk: the shape YYYY-MM-DD alone, any month and day.
DateOkShape(s) ==
  /\ Len(s) = 10
  /\ s[5] = "-" /\ s[8] = "-"
  /\ AllDigits(SubSeq(s, 1, 4)) /\ AllDigits(SubSeq(s, 6, 7))
  /\ AllDigits(SubSeq(s, 9, 10))

\* date: date -- YYYY-MM-DD naming a day of the calendar.
DateOk(s) ==
  /\ Len(s) = 10
  /\ s[5] = "-" /\ s[8] = "-"
  /\ AllDigits(SubSeq(s, 1, 4)) /\ AllDigits(SubSeq(s, 6, 7))
  /\ AllDigits(SubSeq(s, 9, 10))
  /\ LET y == DecimalValue(SubSeq(s, 1, 4))
         m == DecimalValue(SubSeq(s, 6, 7))
         d == DecimalValue(SubSeq(s, 9, 10))
     IN  y >= 1 /\ m \in 1..12 /\ d \in 1..DaysInMonth(y, m)

ParseDate(s) ==
  [y |-> DecimalValue(SubSeq(s, 1, 4)),
   m |-> DecimalValue(SubSeq(s, 6, 7)),
   d |-> DecimalValue(SubSeq(s, 9, 10))]

\* ExpenseCreate / ExpenseUpdate, and the three Form(...) parameters.
Validates(raw) ==
  /\ raw.description # <<>>
  /\ raw.amount # <<>> /\ AmountOk(raw.amount[1])
  /\ raw.date # <<>> /\ DateOk(raw.date[1])

\* The validated model: description: str, amount: float, date: date.
ExpenseCreate(raw) ==
  [description |-> raw.description[1],
   amount |-> ParseAmount(raw.amount[1]),
   date |-> ParseDate(raw.date[1])]

(* ------------------------------ storage ------------------------------- *)

\* class Expense: the columns of a row besides its primary key.  The Date
\* column is kept as ISO text, the Float column as a number.
Columns == {"description", "amount", "date"}

\* Binding an Expense object's attributes to the columns of a row.
Row(e) ==
  [description |-> e.description, amount |-> e.amount, date |-> IsoFormat(e.date)]

\* ExpenseRead.model_validate(row): the record a client is shown.
ExpenseRead(i, row) ==
  [id |-> i, description |-> row.description, amount |-> row.amount,
   date |-> ParseDate(row.date)]

MaxOf(S) == IF S = {} THEN 0 ELSE CHOOSE x \in S : \A y \in S : y <= x

\* Variant of NextId: one more than the number of rows.
NextIdCount(t) == Cardinality(DOMAIN t) + 1

\* Variant of NextId: the smallest id no row has.
NextIdLowest(t) ==
  CHOOSE n \in 1..(Cardinality(DOMAIN t) + 1) :
    n \notin DOMAIN t /\ \A m \in 1..(n - 1) : m \in DOMAIN t

\* id = Column(Integer, primary_key=True) on the default sqlite engine: an
\* INTEGER PRIMARY KEY without AUTOINCREMENT is the rowid, assigned as one
\* more than the largest rowid in the table, 1 in an empty table.
NextId(t) == MaxOf(DOMAIN t) + 1

\* db.query(Expense).all(): the rows in rowid order.
RECURSIVE Listing(_, _)
Listing(t, S) ==
  IF S = {} THEN <<>>
  ELSE LET i == MaxOf(S)
       IN  Append(Listing(t, S \ {i}), ExpenseRead(i, t[i]))

QueryAll(t) == Listing(t, DOMAIN t)

\* func.sum(Expense.amount) over the rows S: NULL (<<>>) over no rows.
RECURSIVE Total(_, _)
Total(t, S) ==
  IF S = {} THEN 0
  ELSE LET i == CHOOSE x \in S : TRUE IN t[i].amount + Total(t, S \ {i})

\* Variant of SqlSum: the amount of one row, not the sum.
SqlSumFirst(t, S) == IF S = {} THEN <<>> ELSE <<t[MaxOf(S)].amount>>

SqlSum(t, S) == IF S = {} THEN <<>> ELSE <<Total(t, S)>>

\* Python's `total or 0.0`: None and 0.0 both give 0.0.
OrZero(x) == IF x = <<>> \/ x = <<0>> THEN 0 ELSE x[1]

\* extract('month' | 'year', Expense.date) on the stored ISO text.
Extract(field, text) ==
  IF field = "year" THEN DecimalValue(SubSeq(text, 1, 4))
  ELSE DecimalValue(SubSeq(text, 6, 7))

\* The filter of total_expenses_api: the rows of month m and year y.
InMonth(t, m, y) ==
  {i \in DOMAIN t : Extract("month", t[i].date) = m /\ Extract("year", t[i].date) = y}

\* The attributes of a loaded object that an assignment of e changes: the
\* unit of work writes these columns and no others at the next flush.
Dirty(row, e) == {c \in Columns : Row(e)[c] # row[c]}

\* Variant of Updated: the date is never written.
UpdatedNoDate(row, e, dirty) ==
  [c \in Columns |-> IF c \in dirty \ {"date"} THEN Row(e)[c] ELSE row[c]]

\* UPDATE expenses SET <dirty columns> WHERE id = i.
Updated(row, e, dirty) == [c \in Columns |-> IF c \in dirty THEN Row(e)[c] ELSE row[c]]

\* Variant of Find: without the filter a missing id finds the last row.
FindAny(t, i) ==
  IF i \in DOMAIN t THEN <<i>>
  ELSE IF DOMAIN t # {} THEN <<MaxOf(DOMAIN t)>> ELSE <<>>

\* db.query(Expense).filter(Expense.id == i).first(): <<>> for None.
Find(t, i) == IF i \in DOMAIN t THEN <<i>> ELSE <<>>

Insert(t, i, row) == [j \in DOMAIN t \cup {i} |-> IF j = i THEN row ELSE t[j]]

\* Variant of Delete: a DELETE without its WHERE.
DeleteAll(t, i) == [j \in {} |-> t[j]]

Delete(t, i) == [j \in DOMAIN t \ {i} |-> t[j]]

(* ------------------------------ requests ------------------------------ *)

WebKinds == {"read_root", "add_expense", "update_expense_form", "update_expense",
             "delete_expense"}

ApiKinds == {"create_expense_api", "read_expenses_api", "total_expenses_api",
             "update_expense_api", "delete_expense_api"}

Kinds == WebKinds \cup ApiKinds

CreateKinds == {"add_expense", "create_expense_api"}
UpdateKinds == {"update_expense", "update_expense_api"}
DeleteKinds == {"delete_expense", "delete_expense_api"}
BodyKinds == CreateKinds \cup UpdateKinds
IdKinds == UpdateKinds \cup DeleteKinds \cup {"update_expense_form"}

NoBody == [description |-> <<>>, amount |-> <<>>, date |-> <<>>]

NoContent == [rows |-> <<>>, total |-> 0]

Idle ==
  [pc |-> "idle", kind |-> "none", expense_id |-> 0, raw |-> NoBody, db |-> 0,
   oid |-> 0, dirty |-> {}, month |-> 0, status |-> 0, body |-> NoContent,
   stmts |-> 0, again |-> FALSE]

InFlight(r) == req[r].pc # "idle"

Slots == DOMAIN req

\* def get_db(): db = session_local() -- a new Session object on every call.
get_db(open) == CHOOSE n \in 1..(Cardinality(open) + 1) : n \notin open

\* Variant of Finally: db.close() after the yield, skipped by an exception.
CloseOnSuccess(open, db, status) == IF status >= 400 THEN open ELSE open \ {db}

\* finally: db.close() -- on every way out of the request.
Finally(open, db, status) == open \ {db}

\* The web handlers are coroutines of one event loop and hold it from their
\* first statement to their return; the API handlers are plain functions,
\* each run on a thread of its own.
Running == {"sum", "commit", "refresh", "year"}

CanRun(r) ==
  \/ req[r].kind \in ApiKinds
  \/ \A q \in Slots \ {r} : ~(req[q].kind \in WebKinds /\ req[q].pc \in Running)

\* Rows that creates already accepted will still add.
Pending == Cardinality({q \in Slots : req[q].kind \in CreateKinds /\ req[q].pc = "handler"})

Set(r, f) == req' = [req EXCEPT ![r] = f]

\* A request arrives: routing, Depends(get_db), then validation of the body
\* (RequestValidationError, 422) before the handler is entered.
Request(r, kinds, bodies, cap) ==
  /\ req[r].pc = "idle"
  /\ \E k \in kinds :
       \E i \in (IF k \in IdKinds THEN 1..cap ELSE {0}) :
         \E raw \in (IF k \in BodyKinds THEN bodies ELSE {NoBody}) :
           LET db == get_db(sessions)
               ok == k \notin BodyKinds \/ Validates(raw)
           IN  /\ (ok /\ k \in CreateKinds) => NextId(table) + Pending <= cap
               /\ sessions' = sessions \cup {db}
               /\ Set(r, [Idle EXCEPT !.kind = k, !.expense_id = i, !.raw = raw,
                                      !.db = db,
                                      !.pc = IF ok THEN "handler" ELSE "close",
                                      !.status = IF ok THEN 0 ELSE 422])
  /\ UNCHANGED <<table, today, ticks, balance, deleted>>

\* The response is sent and the dependency's finally block runs.
Respond(r) ==
  /\ req[r].pc = "close"
  /\ sessions' = Finally(sessions, req[r].db, req[r].status)
  /\ Set(r, Idle)
  /\ UNCHANGED <<table, today, ticks, balance, deleted>>

\* Midnight passes.
Tick ==
  /\ ticks < MaxTicks
  /\ today' = NextDay(today)
  /\ ticks' = ticks + 1
  /\ UNCHANGED <<table, sessions, req, balance, deleted>>

(* ------------------------------ handlers ------------------------------ *)

At(r, k, pc) == req[r].kind \in k /\ req[r].pc = pc /\ CanRun(r)

\* The response of a write: the record on the API, a redirect to / on the web.
Written(r, i) ==
  IF req[r].kind \in ApiKinds
  THEN [status |-> 200, body |-> [rows |-> <<ExpenseRead(i, table[i])>>, total |-> 0]]
  ELSE [status |-> 303, body |-> NoContent]

\* read_root: expenses = db.query(Expense).all()
read_root_all(r) ==
  /\ At(r, {"read_root"}, "handler")
  /\ Set(r, [req[r] EXCEPT !.body.rows = QueryAll(table), !.pc = "sum",
                           !.stmts = @ + 1])
  /\ UNCHANGED <<table, today, ticks, sessions, balance, deleted>>

\* read_root: total = db.query(func.sum(Expense.amount)).scalar() or 0.0
read_root_sum(r) ==
  /\ At(r, {"read_root"}, "sum")
  /\ Set(r, [req[r] EXCEPT !.body.total = OrZero(SqlSum(table, DOMAIN table)),
                           !.status = 200, !.pc = "close", !.stmts = @ + 1])
  /\ UNCHANGED <<table, today, ticks, sessions, balance, deleted>>

\* update_expense_form: the row by id, or 404.
update_expense_form(r) ==
  /\ At(r, {"update_expense_form"}, "handler")
  /\ LET found == Find(table, req[r].expense_id)
     IN  Set(r, IF found # <<>>
                THEN [req[r] EXCEPT
                        !.body.rows = <<ExpenseRead(found[1], table[found[1]])>>,
                        !.status = 200, !.pc = "close", !.stmts = @ + 1]
                ELSE [req[r] EXCEPT !.status = 404, !.pc = "close", !.stmts = @ + 1])
  /\ UNCHANGED <<table, today, ticks, sessions, balance, deleted>>

\* add_expense, create_expense_api: db.add(db_expense); db.commit()
create_insert(r) ==
  /\ At(r, CreateKinds, "handler")
  /\ LET e == ExpenseCreate(req[r].raw)
         i == NextId(table)
     IN  /\ table' = Insert(table, i, Row(e))
         /\ Set(r, [req[r] EXCEPT !.oid = i, !.pc = "refresh", !.stmts = @ + 1,
                                  !.again = i \in deleted])
         /\ balance' = balance + e.amount
         /\ deleted' = deleted \ {i}
  /\ UNCHANGED <<today, ticks, sessions>>

\* add_expense, create_expense_api: db.refresh(db_expense), then the response.
\* Refreshing an object whose row is gone raises InvalidRequestError (500).
create_refresh(r) ==
  /\ At(r, CreateKinds, "refresh")
  /\ LET i == req[r].oid
         out == IF i \in DOMAIN table THEN Written(r, i)
                ELSE [status |-> 500, body |-> NoContent]
     IN  Set(r, [req[r] EXCEPT !.status = out.status, !.body = out.body,
                               !.pc = "close", !.stmts = @ + 1])
  /\ UNCHANGED <<table, today, ticks, sessions, balance, deleted>>

\* update_expense, update_expense_api: the row by id, or 404; then the three
\* attribute assignments on the loaded object.
update_query(r) ==
  /\ At(r, UpdateKinds, "handler")
  /\ LET found == Find(table, req[r].expense_id)
     IN  Set(r, IF found # <<>>
                THEN [req[r] EXCEPT
                        !.oid = found[1],
                        !.dirty = Dirty(table[found[1]], ExpenseCreate(req[r].raw)),
                        !.pc = "commit", !.stmts = @ + 1]
                ELSE [req[r] EXCEPT !.status = 404, !.pc = "close", !.stmts = @ + 1])
  /\ UNCHANGED <<table, today, ticks, sessions, balance, deleted>>

\* update_expense, update_expense_api: db.commit() -- the flush writes the
\* dirty columns; an UPDATE that matches no row raises StaleDataError (500);
\* with no dirty column no statement is sent.
update_commit(r) ==
  /\ At(r, UpdateKinds, "commit")
  /\ LET i == req[r].oid
         d == req[r].dirty
     IN  IF d = {}
         THEN /\ Set(r, [req[r] EXCEPT !.pc = "refresh"])
              /\ UNCHANGED <<table, balance>>
         ELSE IF i \in DOMAIN table
         THEN /\ table' = [table EXCEPT
                             ![i] = Updated(table[i], ExpenseCreate(req[r].raw), d)]
              /\ Set(r, [req[r] EXCEPT !.pc = "refresh", !.stmts = @ + 1])
              /\ balance' = balance - table[i].amount + table'[i].amount
         ELSE /\ Set(r, [req[r] EXCEPT !.status = 500, !.pc = "close", !.stmts = @ + 1])
              /\ UNCHANGED <<table, balance>>
  /\ UNCHANGED <<today, ticks, sessions, deleted>>

\* update_expense, update_expense_api: db.refresh(db_expense), then the response.
update_refresh(r) ==
  /\ At(r, UpdateKinds, "refresh")
  /\ LET i == req[r].oid
         out == IF i \in DOMAIN table THEN Written(r, i)
                ELSE [status |-> 500, body |-> NoContent]
     IN  Set(r, [req[r] EXCEPT !.status = out.status, !.body = out.body,
                               !.pc = "close", !.stmts = @ + 1])
  /\ UNCHANGED <<table, today, ticks, sessions, balance, deleted>>

\* delete_expense, delete_expense_api: the row by id, or 404.
delete_query(r) ==
  /\ At(r, DeleteKinds, "handler")
  /\ LET found == Find(table, req[r].expense_id)
     IN  Set(r, IF found # <<>>
                THEN [req[r] EXCEPT !.oid = found[1], !.pc = "commit", !.stmts = @ + 1]
                ELSE [req[r] EXCEPT !.status = 404, !.pc = "close", !.stmts = @ + 1])
  /\ UNCHANGED <<table, today, ticks, sessions, balance, deleted>>

\* delete_expense, delete_expense_api: db.delete(db_expense); db.commit().
\* A DELETE that matches no row is only warned about.
delete_commit(r) ==
  /\ At(r, DeleteKinds, "commit")
  /\ LET i == req[r].oid
     IN  /\ table' = Delete(table, i)
         /\ deleted' = IF i \in DOMAIN table THEN deleted \cup {i} ELSE deleted
         /\ balance' = IF i \in DOMAIN table THEN balance - table[i].amount
                       ELSE balance
         /\ Set(r, [req[r] EXCEPT
                      !.status = IF req[r].kind \in ApiKinds THEN 200 ELSE 303,
                      !.pc = "close", !.stmts = @ + 1])
  /\ UNCHANGED <<today, ticks, sessions>>

\* read_expenses_api: every row as ExpenseRead.
read_expenses_api(r) ==
  /\ At(r, {"read_expenses_api"}, "handler")
  /\ Set(r, [req[r] EXCEPT !.body.rows = QueryAll(table), !.status = 200,
                           !.pc = "close", !.stmts = @ + 1])
  /\ UNCHANGED <<table, today, ticks, sessions, balance, deleted>>

\* total_expenses_api: current_month = date.today().month
total_month(r) ==
  /\ At(r, {"total_expenses_api"}, "handler")
  /\ Set(r, [req[r] EXCEPT !.month = today.m, !.pc = "year"])
  /\ UNCHANGED <<table, today, ticks, sessions, balance, deleted>>

\* total_expenses_api: current_year = date.today().year, then the filtered
\* sum and `total or 0.0`.
total_query(r) ==
  /\ At(r, {"total_expenses_api"}, "year")
  /\ LET rows == InMonth(table, req[r].month, today.y)
     IN  Set(r, [req[r] EXCEPT !.body.total = OrZero(SqlSum(table, rows)),
                               !.status = 200, !.pc = "close", !.stmts = @ + 1])
  /\ UNCHANGED <<table, today, ticks, sessions, balance, deleted>>

(* ---------------------------- specifications -------------------------- *)

Rent == "rent"
Food == "food"

Text10 == <<"1", "0">>
Text25 == <<"2", "5">>
TextBad == <<"1", "x">>

Dec31 == <<"2", "0", "2", "4", "-", "1", "2", "-", "3", "1">>
Dec15 == <<"2", "0", "2", "5", "-", "1", "2", "-", "1", "5">>
Month13 == <<"2", "0", "2", "5", "-", "1", "3", "-", "0", "1">>

\* The bodies clients send, well-formed and malformed.
Bodies ==
  [description : {<<>>, <<Rent>>, <<Food>>},
   amount : {<<Text10>>, <<Text25>>, <<TextBad>>},
   date : {<<Dec31>>, <<Dec15>>, <<Month13>>}]

\* The bodies of the concurrent clients.
FewBodies ==
  {[description |-> <<Rent>>, amount |-> <<Text10>>, date |-> <<Dec31>>],
   [description |-> <<Food>>, amount |-> <<Text10>>, date |-> <<Dec31>>],
   [description |-> <<Rent>>, amount |-> <<Text25>>, date |-> <<Dec31>>],
   [description |-> <<>>, amount |-> <<Text10>>, date |-> <<Dec31>>]}

StartDate == [y |-> 2024, m |-> 12, d |-> 31]

InitWith(slots) ==
  /\ table = <<>>
  /\ today = StartDate
  /\ ticks = 0
  /\ sessions = {}
  /\ req = [r \in slots |-> Idle]
  /\ balance = 0
  /\ deleted = {}

\* The steps of the handlers both surfaces share, and of the API's own.
Handlers ==
  \/ \E r \in Slots : Respond(r)
  \/ \E r \in Slots : create_insert(r)
  \/ \E r \in Slots : create_refresh(r)
  \/ \E r \in Slots : update_query(r)
  \/ \E r \in Slots : update_commit(r)
  \/ \E r \in Slots : update_refresh(r)
  \/ \E r \in Slots : delete_query(r)
  \/ \E r \in Slots : delete_commit(r)
  \/ \E r \in Slots : read_expenses_api(r)
  \/ \E r \in Slots : total_month(r)
  \/ \E r \in Slots : total_query(r)

\* The steps of the web surface's own handlers.
Pages ==
  \/ \E r \in Slots : read_root_all(r)
  \/ \E r \in Slots : read_root_sum(r)
  \/ \E r \in Slots : update_expense_form(r)

\* One client: every request is answered before the next is sent.
Init == InitWith({1})

Next == Tick \/ (\E r \in Slots : Request(r, Kinds, Bodies, MaxId)) \/ Handlers \/ Pages

Spec == Init /\ [][Next]_vars

\* Two clients of the API whose requests overlap, within one day.
ConcInit == InitWith({1, 2})

ConcNext == (\E r \in Slots : Request(r, ApiKinds, FewBodies, ConcMaxId)) \/ Handlers

ConcSpec == ConcInit /\ [][ConcNext]_vars

(* ------------------------ what the inputs mean ------------------------ *)

\* The values the texts above stand for, written out by hand.
MeantAmount(s) == CASE s = Text10 -> 10 [] s = Text25 -> 25

MeantDate(s) ==
  CASE s = Dec31 -> [y |-> 2024, m |-> 12, d |-> 31]
    [] s = Dec15 -> [y |-> 2025, m |-> 12, d |-> 15]

WellFormed(raw) ==
  /\ raw.description \in {<<Rent>>, <<Food>>}
  /\ raw.amount \in {<<Text10>>, <<Text25>>}
  /\ raw.date \in {<<Dec31>>, <<Dec15>>}

\* The record with id i that a well-formed body describes.
Meant(i, raw) ==
  [id |-> i, description |-> raw.description[1],
   amount |-> MeantAmount(raw.amount[1]), date |-> MeantDate(raw.date[1])]

\* The record with id i that the table holds, read column by column.
Held(t, i) ==
  [id |-> i, description |-> t[i].description, amount |-> t[i].amount,
   date |-> IF t[i].date \in {Dec31, Dec15} THEN MeantDate(t[i].date)
            ELSE [y |-> 0, m |-> 0, d |-> 0]]

\* Slot r takes a step.
Moves(r) == req'[r] # req[r]

\* The rows other than i are what they were.
OthersKept(i) ==
  /\ DOMAIN table' \ {i} = DOMAIN table \ {i}
  /\ \A j \in DOMAIN table \ {i} : table'[j] = table[j]

RECURSIVE SumOf(_)
SumOf(S) == IF S = {} THEN 0 ELSE LET x == CHOOSE y \in S : TRUE
                                  IN  Held(table, x).amount + SumOf(S \ {x})

(* ------------------------------- claims ------------------------------- *)

\* C1: the all-time total shown by GET / equals the sum of the amounts created
\* and not deleted since the empty table, and is 0 when the table is empty.
C1_SumAll ==
  \A r \in Slots :
    (req[r].kind = "read_root" /\ req[r].pc = "close") =>
      /\ req[r].status = 200
      /\ req[r].body.total = balance
      /\ req[r].body.total = SumOf(DOMAIN table)
      /\ DOMAIN table = {} => req[r].body.total = 0

C1_Witness ==
  \E r \in Slots :
    /\ req[r].kind = "read_root" /\ req[r].pc = "close"
    /\ req[r].body.total = 25 /\ Len(req[r].body.rows) = 1
    /\ deleted # {}

\* The dates the clock has shown so far.
RECURSIVE DatesFrom(_, _)
DatesFrom(d, n) == IF n = 0 THEN {d} ELSE {d} \cup DatesFrom(NextDay(d), n - 1)

Shown == DatesFrom(StartDate, ticks)

\* The sum of the amounts of the records dated in the month and year of d.
MonthSum(d) ==
  SumOf({i \in DOMAIN table :
           Held(table, i).date.m = d.m /\ Held(table, i).date.y = d.y})

\* C2: GET /api/expenses/total returns the sum of the amounts of exactly the
\* records dated in the month and year of the clock's date at call time (any
\* date the clock showed is accepted as the call time), 0 when none matches.
C2_CurrentMonth ==
  \A r \in Slots :
    (req[r].kind = "total_expenses_api" /\ req[r].pc = "close") =>
      /\ req[r].status = 200
      /\ \E d \in Shown : req[r].body.total = MonthSum(d)

\* C2 with the clock at rest during the call: month and year come from one date.
C2_SameDay ==
  \A r \in Slots :
    (req[r].kind = "total_expenses_api" /\ req[r].pc = "close"
       /\ \E d \in Shown : d.m = req[r].month /\ d.y = today.y) =>
      \E d \in Shown :
        d.m = req[r].month /\ d.y = today.y /\ req[r].body.total = MonthSum(d)

\* C3: POST /api/expenses/ adds exactly one record under an id no stored
\* record has, with the fields of the input, leaves every other record as it
\* was, and returns the record it added.
C3_Step ==
  \A r \in Slots :
    (req[r].kind = "create_expense_api" /\ Moves(r)) =>
      /\ req[r].pc = "handler" =>
           LET i == req'[r].oid
           IN  /\ WellFormed(req[r].raw)
               /\ i \notin DOMAIN table
               /\ DOMAIN table' = DOMAIN table \cup {i}
               /\ OthersKept(i)
               /\ Held(table', i) = Meant(i, req[r].raw)
      /\ req[r].pc = "refresh" =>
           /\ table' = table
           /\ req'[r].status = 200
           /\ req'[r].body.rows = <<Meant(req[r].oid, req[r].raw)>>
           /\ Held(table, req[r].oid) = Meant(req[r].oid, req[r].raw)

C3_CreateApi == [][C3_Step]_vars

C3_Witness ==
  \E r \in Slots :
    /\ req[r].kind = "create_expense_api" /\ req[r].pc = "close"
    /\ req[r].status = 200
    /\ req[r].body.rows[1].id = 2
    /\ Cardinality(DOMAIN table) = 2

\* C4: an update (PUT /api/expenses/{id}, POST /update/{id}) of an id that no
\* stored record has answers 404 and leaves the table as it was.
C4_Step ==
  \A r \in Slots :
    (req[r].kind \in UpdateKinds /\ Moves(r)) =>
      /\ (req[r].pc = "handler" /\ req[r].expense_id \notin DOMAIN table) =>
           /\ req'[r].status = 404 /\ req'[r].pc = "close"
           /\ table' = table
      /\ req[r].status = 404 => table' = table

C4_UpdateMissing == [][C4_Step]_vars

C4_Witness ==
  \E r \in Slots :
    /\ req[r].kind \in UpdateKinds /\ req[r].pc = "close"
    /\ req[r].status = 404
    /\ DOMAIN table # {}

\* The records a list of rows shows.
Listed(rows) == {rows[k] : k \in 1..Len(rows)}

\* C5: a delete (DELETE /api/expenses/{i}, POST /delete/{i}) of a stored id
\* removes that record and no other; a list call then shows every stored
\* record and none with a deleted id; a second delete of the id answers 404
\* and changes nothing.
C5_Step ==
  \A r \in Slots :
    /\ (req[r].kind \in DeleteKinds /\ Moves(r)) =>
         /\ (req[r].pc = "handler" /\ req[r].expense_id \in DOMAIN table) =>
              /\ req'[r].pc = "commit" /\ table' = table
         /\ req[r].pc = "commit" =>
              /\ req[r].expense_id \in DOMAIN table
              /\ DOMAIN table' = DOMAIN table \ {req[r].expense_id}
              /\ OthersKept(req[r].expense_id)
              /\ req'[r].status \in {200, 303}
              /\ req[r].expense_id \in deleted'
         /\ (req[r].pc = "handler" /\ req[r].expense_id \in deleted) =>
              /\ req'[r].status = 404 /\ req'[r].pc = "close"
              /\ table' = table
         /\ req[r].status = 404 => table' = table
    /\ (req[r].kind = "read_expenses_api" /\ req[r].pc = "handler" /\ Moves(r)) =>
         /\ Listed(req'[r].body.rows) = {Held(table, j) : j \in DOMAIN table}
         /\ Len(req'[r].body.rows) = Cardinality(DOMAIN table)
         /\ \A k \in 1..Len(req'[r].body.rows) : req'[r].body.rows[k].id \notin deleted

C5_Delete == [][C5_Step]_vars

C5_Witness ==
  \E r \in Slots :
    /\ req[r].kind \in DeleteKinds /\ req[r].pc = "close"
    /\ req[r].status = 404
    /\ req[r].expense_id \in deleted
    /\ DOMAIN table # {}

\* C6: an update of a stored id replaces description, amount and date by
\* those of the request, keeps the id, changes no other record and returns
\* the record as requested; a created record reads back as it was created.
C6_Step ==
  \A r \in Slots :
    /\ (req[r].kind \in UpdateKinds /\ Moves(r)) =>
         LET i == req[r].expense_id
         IN  /\ (req[r].pc = "handler" /\ i \in DOMAIN table) =>
                  /\ req'[r].pc = "commit" /\ table' = table
             /\ req[r].pc = "commit" =>
                  /\ req'[r].pc = "refresh"
                  /\ i \in DOMAIN table
                  /\ DOMAIN table' = DOMAIN table
                  /\ OthersKept(i)
                  /\ Held(table', i) = Meant(i, req[r].raw)
             /\ req[r].pc = "refresh" =>
                  /\ table' = table
                  /\ Held(table, i) = Meant(i, req[r].raw)
                  /\ req[r].kind = "update_expense_api" =>
                       /\ req'[r].status = 200
                       /\ req'[r].body.rows = <<Meant(i, req[r].raw)>>
                  /\ req[r].kind = "update_expense" => req'[r].status = 303
    /\ (req[r].kind \in CreateKinds /\ req[r].pc = "handler" /\ Moves(r)) =>
         Held(table', req'[r].oid) = Meant(req'[r].oid, req[r].raw)

C6_FullReplacement == [][C6_Step]_vars

C6_Witness ==
  \E r \in Slots :
    /\ req[r].kind = "update_expense_api" /\ req[r].pc = "close"
    /\ req[r].status = 200
    /\ req[r].dirty = Columns
    /\ Cardinality(DOMAIN table) = 2

\* Every column of every stored row holds a value of its type.
Populated ==
  \A i \in DOMAIN table :
    /\ table[i].description \in {Rent, Food}
    /\ table[i].amount \in {10, 25}
    /\ table[i].date \in {Dec31, Dec15}

\* C7: a create or update whose body is malformed (a missing field, an amount
\* that is no number, a date that is no calendar date) is answered 422 before
\* its session has sent a statement; the table is as it was, and no row is
\* ever stored with a column unset.
C7_Step ==
  \A r \in Slots :
    (req'[r].kind \in BodyKinds /\ ~WellFormed(req'[r].raw) /\ Moves(r)) =>
      /\ req'[r].status = 422
      /\ req'[r].pc = "close"
      /\ req'[r].stmts = 0
      /\ table' = table

C7_Rejected ==
  /\ [][C7_Step]_vars
  /\ [][\A r \in Slots : (req[r].status = 422 /\ Moves(r)) => table' = table]_vars
  /\ []Populated

C7_Witness ==
  \E r \in Slots :
    /\ req[r].kind \in UpdateKinds /\ req[r].pc = "close"
    /\ req[r].status = 422
    /\ req[r].raw.amount = <<TextBad>>
    /\ req[r].expense_id \in DOMAIN table

\* C8: two overlapping PUT /api/expenses/{id} of one stored id both succeed,
\* and once both are done the record is the one of a single request: all
\* three fields are of the same request, never a mixture of the two.
C8_LastWriteWins ==
  \A r, q \in Slots :
    (/\ r # q
     /\ req[r].kind = "update_expense_api" /\ req[q].kind = "update_expense_api"
     /\ req[r].expense_id = req[q].expense_id
     /\ req[r].pc = "close" /\ req[q].pc = "close"
     /\ req[r].status \notin {404, 422} /\ req[q].status \notin {404, 422}) =>
      LET i == req[r].expense_id
      IN  /\ req[r].status = 200 /\ req[q].status = 200
          /\ i \in DOMAIN table
          /\ Held(table, i) \in {Meant(i, req[r].raw), Meant(i, req[q].raw)}

\* Every request in flight holds an open session of its own, and no other
\* session is open.
OwnSessions ==
  /\ \A r \in Slots : InFlight(r) <=> req[r].db # 0
  /\ \A r, q \in Slots : (r # q /\ InFlight(r) /\ InFlight(q)) => req[r].db # req[q].db
  /\ sessions = {req[r].db : r \in {x \in Slots : InFlight(x)}}

\* The statements a request still has to run, at most.
Rank(f) ==
  CASE f.pc = "idle" -> 0
    [] f.pc = "close" -> 1
    [] f.pc \in {"refresh", "year", "sum"} -> 2
    [] f.pc = "commit" -> 3
    [] f.pc = "handler" -> 4

\* Where the handlers of the API have a statement to run.
Statements ==
  {<<CreateKinds, "handler">>, <<CreateKinds, "refresh">>,
   <<UpdateKinds, "handler">>, <<UpdateKinds, "commit">>, <<UpdateKinds, "refresh">>,
   <<DeleteKinds, "handler">>, <<DeleteKinds, "commit">>,
   <<{"read_expenses_api"}, "handler">>,
   <<{"total_expenses_api"}, "handler">>, <<{"total_expenses_api"}, "year">>}

\* The request in slot r has its next statement to run, or its response to send.
Ready(r) ==
  IF req[r].pc = "close" THEN ENABLED Respond(r)
  ELSE \E p \in Statements : At(r, p[1], p[2])

\* C9: a request's session is its own, shared with no other request in
\* flight, and is closed in the end whatever the outcome (success, 404, 422):
\* a request in flight always has a next step, every step brings it nearer to
\* its end, and at its end its session is closed; with no request in flight
\* no session is open.
C9_ScopedSession ==
  /\ []OwnSessions
  /\ [](\A r \in Slots : InFlight(r) => Ready(r))
  /\ [][\A r \in Slots : (InFlight(r) /\ Moves(r)) => Rank(req'[r]) < Rank(req[r])]_vars

C9_Witness ==
  /\ req[1].status = 404 /\ req[1].pc = "close"
  /\ req[2].status = 422 /\ req[2].pc = "close"
  /\ Cardinality(sessions) = 2

C10_Step ==
  \A r \in Slots :
    /\ (req[r].kind \in CreateKinds /\ req[r].pc = "handler" /\ Moves(r)) =>
         LET i == req'[r].oid
         IN  /\ i \in DOMAIN table' /\ i \notin DOMAIN table
             /\ \A j \in DOMAIN table : j < i
             /\ i = 1 \/ i - 1 \in DOMAIN table
             /\ req'[r].again <=> i \in deleted
    /\ (req[r].kind \in UpdateKinds \cup DeleteKinds /\ req[r].pc = "handler"
          /\ req[r].expense_id \in deleted /\ Moves(r)) =>
         /\ req'[r].status = 404
         /\ table' = table
    /\ (req[r].kind \in {"read_expenses_api", "read_root"} /\ req[r].pc = "handler"
          /\ Moves(r)) =>
         \A k \in 1..Len(req'[r].body.rows) : req'[r].body.rows[k].id \notin deleted

====
